---- MODULE Spec2Model ----
(***************************************************************************)
(* A model of baseservice.multiprocessing.singleprocesshandler:            *)
(* SingleProcessHandler (the supervisor), its liveness thread, its         *)
(* run thread (process start / join / _close / exit_callback), and the     *)
(* child process running _start_service_and_listen_queue with its          *)
(* _listen_to_pipe daemon thread.                                          *)
(*                                                                         *)
(* The start() calls are numbered 1, 2, ... ("run r").  Each makes a new   *)
(* Pipe and a new Process and starts a liveness thread and a run thread.   *)
(* The supervisor holds one Pipe and one Process at a time: the variables  *)
(* that describe them describe the objects made by the latest start(),     *)
(* the only ones any thread can still reach through self._parent_pipe and  *)
(* self._process.  The threads of earlier runs may still be running, so    *)
(* the threads are kept per run.  0 stands for Python's None.              *)
(* Each thread advances one shared-memory access at a time, so that the    *)
(* interleavings of the threads are those of the program.                  *)
(*                                                                         *)
(* The module also models baseservice.utils.Event: its handler list and    *)
(* one call of fire() at a time, a handler invocation per step.            *)
(***************************************************************************)
EXTENDS Naturals, Integers, Sequences, FiniteSets, TLC

\* ------------------------------------------------------------------ bounds
\* number of start() calls
MaxRuns == 2
\* number of stop(), terminate() and kill() calls made by the caller
MaxCalls == 2

\* length of the handler list of an Event
MaxHandlers == 3

Runs == 1..MaxRuns
\* the handlers (callables) that can be registered with an Event
HandlerIds == {1, 2}
InstanceIndices == {3}

\* ------------------------------------------------------------------ messages
STOP_MESSAGE == "STOP"
TEST_ALIVE_MESSAGE == "TEST_ALIVE"

VARIABLES
    \* SingleProcessHandler attributes
    instance_index,     \* self._instance_index
    parent_pipe,        \* self._parent_pipe: 0 (None) or the run that made the Pipe
    stop_was_called,    \* self._stop_was_called (threading.Event)
    process,            \* self._process: 0 (None) or the run that made the Process
    runs,               \* number of start() calls made so far
    \* the caller of the public operations (one thread)
    callerPc,           \* where the caller is inside start()/stop()/terminate()/kill()
    ret,                \* what the caller's last is_alive() returned: <<>> (no call yet) or <<value>>
    calls,              \* number of stop()/terminate()/kill() calls the caller has made
    \* the Pipe() made by the latest start()
    parentClosed,       \* the parent Connection was closed
    childClosed,        \* the child Connection is closed (by the listener or by process exit)
    toChild,            \* messages sent by the parent, not yet received by the child
    toParent,           \* replies sent by the child, not yet received by the parent
    \* the Process that self._process refers to
    pstate,             \* "none", "created", then the child's position, then "exited"
    sig,                \* number of terminate/kill signals delivered to it while it ran
    env,                \* os.environ[INSTANCE_INDEX_ENV_VAR] inside the child: <<>> or <<value>>
    envAtCreate,        \* what that variable held when create_service() was invoked
    lpc,                \* position of the _listen_to_pipe thread
    workerStops,        \* number of inner_service.stop() calls made by the listener
    \* the liveness thread of each run
    mpc,                \* position of _liveness_check
    lateProbes,         \* probes sent by this thread since _stop_was_called was last set
    \* the run thread of each run
    epc,                \* position of _run_thread
    cbCount,            \* number of exit_callback(self) invocations made by this thread
    \* baseservice.utils.Event and one call of fire() on it
    handlers,           \* self._handlers: the list of registered handlers
    firePc,             \* "idle", "loop" (inside the for loop), "returned", "raised"
    it,                 \* the list iterator of the for loop: entries consumed so far
    ret_val,            \* ret_val of fire()
    continue_after_failure, \* the argument of fire()
    result,             \* what fire() returned: <<>> or <<value>>
    atBegin,            \* self._handlers as it was when fire() began
    invoked,            \* the handlers invoked by this fire(), in order
    outcomes,           \* for each invocation, whether the handler raised
    shrunk,             \* a handler called unregister_handler during this fire()
    grew                \* a handler called register_handler during this fire()

supVars == <<instance_index, parent_pipe, stop_was_called, process, runs>>
callerVars == <<callerPc, ret, calls>>
pipeVars == <<parentClosed, childClosed, toChild, toParent>>
childVars == <<pstate, sig, env, envAtCreate, lpc, workerStops>>
monVars == <<mpc, lateProbes>>
exitVars == <<epc, cbCount>>
evVars == <<handlers, firePc, it, ret_val, continue_after_failure, result,
            atBegin, invoked, outcomes, shrunk, grew>>
svcVars == <<supVars, callerVars, pipeVars, childVars, monVars, exitVars>>
vars == <<supVars, callerVars, pipeVars, childVars, monVars, exitVars, evVars>>

AliveStates == {"create", "run"}

\* multiprocessing.Process.is_alive(): started (a _popen exists) and not yet exited
os_alive == pstate \in AliveStates

Init ==
    /\ instance_index \in InstanceIndices
    /\ parent_pipe = 0
    /\ stop_was_called = FALSE
    /\ process = 0
    /\ runs = 0
    /\ callerPc = "idle"
    /\ ret = <<>>
    /\ calls = 0
    /\ parentClosed = FALSE
    /\ childClosed = FALSE
    /\ toChild = <<>>
    /\ toParent = <<>>
    /\ pstate = "none"
    /\ sig = 0
    /\ env = <<>>
    /\ envAtCreate = <<>>
    /\ lpc = "none"
    /\ workerStops = 0
    /\ mpc = [r \in Runs |-> "none"]
    /\ lateProbes = [r \in Runs |-> 0]
    /\ epc = [r \in Runs |-> "none"]
    /\ cbCount = [r \in Runs |-> 0]
    /\ handlers = <<>>
    /\ firePc = "idle"
    /\ it = 0
    /\ ret_val = TRUE
    /\ continue_after_failure = TRUE
    /\ result = <<>>
    /\ atBegin = <<>>
    /\ invoked = <<>>
    /\ outcomes = <<>>
    /\ shrunk = FALSE
    /\ grew = FALSE

\* ------------------------------------------------------------------ helpers

\* is_alive() that tests the handle only, not the operating system's process
is_alive_HandleOnly == process # 0

\* SingleProcessHandler.is_alive, lines 125-126
is_alive == process # 0 /\ os_alive

\* SingleProcessHandler.pid, lines 128-132: None (0) without a Process
\* object; Process.pid is None until the process was started, and stays
\* the process id after it has exited.  A started process of run r is
\* given the id r.
pid == IF process = 0 \/ pstate \in {"none", "created"} THEN 0 ELSE process

\* Connection.send on self._parent_pipe: what the call does
SendOutcome ==
    IF parent_pipe = 0 THEN "AttributeError"
    ELSE IF parentClosed THEN "OSError"
    ELSE IF childClosed THEN "BrokenPipeError"
    ELSE "ok"

\* the state start() must be called from: Idle, or Exited (the previous
\* run's thread has invoked the exit callback)
IdleOrExited == IF runs = 0 THEN TRUE ELSE epc[runs] = "done"

\* ------------------------------------------------------------------ start()
\* lines 110-111: context.Pipe(); self._parent_pipe is the new parent end
Start_Pipe ==
    /\ callerPc = "idle"
    /\ IdleOrExited
    /\ runs < MaxRuns
    /\ runs' = runs + 1
    /\ parent_pipe' = runs + 1
    /\ parentClosed' = FALSE
    /\ childClosed' = FALSE
    /\ toChild' = <<>>
    /\ toParent' = <<>>
    /\ callerPc' = "start_clear"
    /\ UNCHANGED <<evVars, instance_index, stop_was_called, process, ret, calls>>
    /\ UNCHANGED <<childVars, monVars, exitVars>>

\* line 112: self._stop_was_called.clear()
Start_Clear ==
    /\ callerPc = "start_clear"
    /\ stop_was_called' = FALSE
    /\ lateProbes' = [r \in Runs |-> 0]
    /\ callerPc' = "start_spawn"
    /\ UNCHANGED <<evVars, instance_index, parent_pipe, process, runs>>
    /\ UNCHANGED <<ret, calls, mpc>>
    /\ UNCHANGED <<pipeVars, childVars, exitVars>>

\* lines 113-118: the Process object, the liveness thread and the run thread
Start_Spawn ==
    /\ callerPc = "start_spawn"
    /\ process' = runs
    /\ pstate' = "created"
    /\ sig' = 0
    /\ env' = <<>>
    /\ envAtCreate' = <<>>
    /\ lpc' = "none"
    /\ workerStops' = 0
    /\ mpc' = [mpc EXCEPT ![runs] = "wait"]
    /\ epc' = [epc EXCEPT ![runs] = "start"]
    /\ callerPc' = "idle"
    /\ UNCHANGED <<evVars, instance_index, parent_pipe, stop_was_called, runs>>
    /\ UNCHANGED <<ret, calls>>
    /\ UNCHANGED <<lateProbes, cbCount>>
    /\ UNCHANGED pipeVars

\* ------------------------------------------------------------------ stop()
\* line 121: self._stop_was_called.set()
Stop_Set ==
    /\ callerPc = "idle"
    /\ calls < MaxCalls
    /\ calls' = calls + 1
    /\ stop_was_called' = TRUE
    /\ callerPc' = "stop_chk"
    /\ UNCHANGED <<evVars, instance_index, parent_pipe, process, runs, ret>>
    /\ UNCHANGED <<pipeVars, childVars, monVars, exitVars>>

\* line 122: if self._parent_pipe is not None
Stop_Check ==
    /\ callerPc = "stop_chk"
    /\ callerPc' = IF parent_pipe # 0 THEN "stop_send" ELSE "idle"
    /\ UNCHANGED <<evVars, supVars, ret, calls>>
    /\ UNCHANGED <<pipeVars, childVars, monVars, exitVars>>

\* line 123: self._parent_pipe.send(_STOP_MESSAGE); when SendOutcome is not
\* "ok" the exception escapes stop() to the caller
Stop_Send ==
    /\ callerPc = "stop_send"
    /\ callerPc' = "idle"
    /\ toChild' = IF SendOutcome = "ok" THEN Append(toChild, STOP_MESSAGE) ELSE toChild
    /\ UNCHANGED <<evVars, supVars, ret, calls>>
    /\ UNCHANGED <<parentClosed, childClosed, toParent>>
    /\ UNCHANGED <<childVars, monVars, exitVars>>

\* ------------------------------------------------------------------ is_alive()
\* lines 125-126, called by the caller
Call_is_alive ==
    /\ callerPc = "idle"
    /\ ret' = <<is_alive>>
    /\ UNCHANGED <<evVars, supVars, callerPc, calls>>
    /\ UNCHANGED <<pipeVars, childVars, monVars, exitVars>>

\* ------------------------------------------------------------------ terminate() / kill()
\* Process.terminate() / Process.kill() on self._process.  A Process that was
\* never started has no _popen (AttributeError); a signal to a process that
\* has exited is not delivered.
SignalOutcome ==
    IF process = 0 \/ pstate = "created" THEN "AttributeError"
    ELSE IF os_alive THEN "delivered"
    ELSE "ignored"

\* terminate()/kill() that act without the is_alive() test
SignalGuard_Always == TRUE

\* lines 139 and 143: if self.is_alive()
SignalGuard == is_alive

\* lines 138-139: terminate(), the test
Terminate_Check ==
    /\ callerPc = "idle"
    /\ calls < MaxCalls
    /\ calls' = calls + 1
    /\ callerPc' = IF SignalGuard THEN "terminate" ELSE "idle"
    /\ UNCHANGED <<evVars, supVars, ret>>
    /\ UNCHANGED <<pipeVars, childVars, monVars, exitVars>>

\* lines 142-143: kill(), the test
Kill_Check ==
    /\ callerPc = "idle"
    /\ calls < MaxCalls
    /\ calls' = calls + 1
    /\ callerPc' = IF SignalGuard THEN "kill" ELSE "idle"
    /\ UNCHANGED <<evVars, supVars, ret>>
    /\ UNCHANGED <<pipeVars, childVars, monVars, exitVars>>

\* lines 140 and 144: self._process.terminate() / self._process.kill()
Signal_Send ==
    /\ callerPc \in {"terminate", "kill"}
    /\ callerPc' = "idle"
    /\ sig' = IF SignalOutcome = "delivered" THEN sig + 1 ELSE sig
    /\ UNCHANGED <<evVars, supVars, ret, calls>>
    /\ UNCHANGED <<pstate, env, envAtCreate, lpc, workerStops>>
    /\ UNCHANGED <<pipeVars, monVars, exitVars>>

Caller ==
    \/ Start_Pipe
    \/ Start_Clear
    \/ Start_Spawn
    \/ Stop_Set
    \/ Stop_Check
    \/ Stop_Send
    \/ Call_is_alive
    \/ Terminate_Check
    \/ Kill_Check
    \/ Signal_Send

\* ------------------------------------------------------------------ _liveness_check
\* a wait that only sleeps and never looks at the event
WaitReturns_Never == FALSE

\* line 88: while not self._stop_was_called.wait(self._live_check_interval).
\* The wait ends at once when the event is set, and after the interval when
\* it is not.
WaitReturns == stop_was_called

Mon_Wait(r) ==
    /\ mpc[r] = "wait"
    /\ mpc' = [mpc EXCEPT ![r] = IF WaitReturns THEN "exited" ELSE "chk_none"]
    /\ UNCHANGED <<evVars, supVars, callerVars, pipeVars, childVars, lateProbes, exitVars>>

\* line 90, left operand: self._parent_pipe is not None
Mon_CheckNone(r) ==
    /\ mpc[r] = "chk_none"
    /\ mpc' = [mpc EXCEPT ![r] = IF parent_pipe # 0 THEN "chk_closed" ELSE "esc_set"]
    /\ UNCHANGED <<evVars, supVars, callerVars, pipeVars, childVars, lateProbes, exitVars>>

\* line 90, right operand: not self._parent_pipe.closed
Mon_CheckClosed(r) ==
    /\ mpc[r] = "chk_closed"
    /\ mpc' = [mpc EXCEPT ![r] =
                 IF parent_pipe = 0 THEN "error"
                 ELSE IF parentClosed THEN "esc_set"
                 ELSE "send"]
    /\ UNCHANGED <<evVars, supVars, callerVars, pipeVars, childVars, lateProbes, exitVars>>

\* line 91: self._parent_pipe.send(_TEST_ALIVE_MESSAGE)
Mon_Send(r) ==
    /\ mpc[r] = "send"
    /\ IF SendOutcome = "ok"
         THEN /\ toChild' = Append(toChild, TEST_ALIVE_MESSAGE)
              /\ lateProbes' = [lateProbes EXCEPT ![r] =
                                  IF stop_was_called THEN @ + 1 ELSE @]
              /\ mpc' = [mpc EXCEPT ![r] = "poll"]
         ELSE /\ mpc' = [mpc EXCEPT ![r] = "error"]
              /\ UNCHANGED <<toChild, lateProbes>>
    /\ UNCHANGED <<evVars, supVars, callerVars, childVars, exitVars>>
    /\ UNCHANGED <<parentClosed, childClosed, toParent>>

\* line 92: has_answer = self._parent_pipe.poll(self._live_check_timeout).
\* A reply, or the end of file of a closed child end, makes the pipe
\* readable; with neither the timeout runs out and alive stays False.
PollOutcome ==
    IF parent_pipe = 0 THEN "AttributeError"
    ELSE IF parentClosed THEN "OSError"
    ELSE IF toParent # <<>> \/ childClosed THEN "readable"
    ELSE "timeout"

Mon_Poll(r) ==
    /\ mpc[r] = "poll"
    /\ mpc' = [mpc EXCEPT ![r] =
                 IF PollOutcome = "readable" THEN "recv"
                 ELSE IF PollOutcome = "timeout" THEN "esc_set"
                 ELSE "error"]
    /\ UNCHANGED <<evVars, supVars, callerVars, pipeVars, childVars, lateProbes, exitVars>>

\* Connection.recv on self._parent_pipe: what the call does.  It blocks
\* while the pipe is open and empty.
RecvOutcome ==
    IF parent_pipe = 0 THEN "AttributeError"
    ELSE IF parentClosed THEN "OSError"
    ELSE IF toParent # <<>> THEN "value"
    ELSE IF childClosed THEN "EOFError"
    ELSE "blocked"

\* line 94: alive = self._parent_pipe.recv(); lines 96-100: if not alive
Mon_Recv(r) ==
    /\ mpc[r] = "recv"
    /\ RecvOutcome # "blocked"
    /\ IF RecvOutcome = "value"
         THEN /\ mpc' = [mpc EXCEPT ![r] = IF Head(toParent) THEN "wait" ELSE "esc_set"]
              /\ toParent' = Tail(toParent)
         ELSE /\ mpc' = [mpc EXCEPT ![r] = "error"]
              /\ UNCHANGED toParent
    /\ UNCHANGED <<evVars, supVars, callerVars, childVars, lateProbes, exitVars>>
    /\ UNCHANGED <<parentClosed, childClosed, toChild>>

\* line 98, self.stop(): line 121
Mon_StopSet(r) ==
    /\ mpc[r] = "esc_set"
    /\ stop_was_called' = TRUE
    /\ mpc' = [mpc EXCEPT ![r] = "esc_chk"]
    /\ UNCHANGED <<evVars, instance_index, parent_pipe, process, runs>>
    /\ UNCHANGED <<callerVars, pipeVars, childVars, lateProbes, exitVars>>

\* line 98, self.stop(): line 122
Mon_StopCheck(r) ==
    /\ mpc[r] = "esc_chk"
    /\ mpc' = [mpc EXCEPT ![r] = IF parent_pipe # 0 THEN "esc_send" ELSE "esc_alive"]
    /\ UNCHANGED <<evVars, supVars, callerVars, pipeVars, childVars, lateProbes, exitVars>>

\* line 98, self.stop(): line 123; an exception ends the thread before kill()
Mon_StopSend(r) ==
    /\ mpc[r] = "esc_send"
    /\ IF SendOutcome = "ok"
         THEN /\ toChild' = Append(toChild, STOP_MESSAGE)
              /\ mpc' = [mpc EXCEPT ![r] = "esc_alive"]
         ELSE /\ mpc' = [mpc EXCEPT ![r] = "error"]
              /\ UNCHANGED toChild
    /\ UNCHANGED <<evVars, supVars, callerVars, childVars, lateProbes, exitVars>>
    /\ UNCHANGED <<parentClosed, childClosed, toParent>>

\* line 99, self.kill(): line 143; line 100: break
Mon_KillCheck(r) ==
    /\ mpc[r] = "esc_alive"
    /\ mpc' = [mpc EXCEPT ![r] = IF SignalGuard THEN "esc_kill" ELSE "escalated"]
    /\ UNCHANGED <<evVars, supVars, callerVars, pipeVars, childVars, lateProbes, exitVars>>

\* line 99, self.kill(): line 144; line 100: break
Mon_Kill(r) ==
    /\ mpc[r] = "esc_kill"
    /\ sig' = IF SignalOutcome = "delivered" THEN sig + 1 ELSE sig
    /\ mpc' = [mpc EXCEPT ![r] =
                 IF SignalOutcome = "AttributeError" THEN "error" ELSE "escalated"]
    /\ UNCHANGED <<evVars, supVars, callerVars, pipeVars, lateProbes, exitVars>>
    /\ UNCHANGED <<pstate, env, envAtCreate, lpc, workerStops>>

Monitor(r) ==
    \/ Mon_Wait(r)
    \/ Mon_CheckNone(r)
    \/ Mon_CheckClosed(r)
    \/ Mon_Send(r)
    \/ Mon_Poll(r)
    \/ Mon_Recv(r)
    \/ Mon_StopSet(r)
    \/ Mon_StopCheck(r)
    \/ Mon_StopSend(r)
    \/ Mon_KillCheck(r)
    \/ Mon_Kill(r)

\* ------------------------------------------------------------------ _run_thread
\* line 153: self._process.start(): the child begins to execute
\* _start_service_and_listen_queue
Run_Start(r) ==
    /\ epc[r] = "start"
    /\ pstate = "created"
    /\ pstate' = "create"
    /\ epc' = [epc EXCEPT ![r] = "join"]
    /\ UNCHANGED <<evVars, supVars, callerVars, pipeVars, monVars, cbCount>>
    /\ UNCHANGED <<sig, env, envAtCreate, lpc, workerStops>>

\* a join() that does not wait for the process
JoinReturns_NoWait == TRUE

\* line 154: self._process.join() returns when the process has exited
JoinReturns == pstate = "exited"

Run_Join(r) ==
    /\ epc[r] = "join"
    /\ JoinReturns
    /\ epc' = [epc EXCEPT ![r] = "close_chk"]
    /\ UNCHANGED <<evVars, supVars, callerVars, pipeVars, childVars, monVars, cbCount>>

\* a run thread that goes to the callback without _close()
ClosePath_Skip == "callback"

\* line 155, self._close(): line 147
ClosePath == IF parent_pipe # 0 THEN "close_do" ELSE "callback"

Run_CloseCheck(r) ==
    /\ epc[r] = "close_chk"
    /\ epc' = [epc EXCEPT ![r] = ClosePath]
    /\ UNCHANGED <<evVars, supVars, callerVars, pipeVars, childVars, monVars, cbCount>>

\* line 155, self._close(): line 148.  What the child had sent and the
\* parent has not received is lost with the parent end.
Run_Close(r) ==
    /\ epc[r] = "close_do"
    /\ parent_pipe # 0
    /\ parentClosed' = TRUE
    /\ toParent' = <<>>
    /\ epc' = [epc EXCEPT ![r] = "close_clear"]
    /\ UNCHANGED <<evVars, supVars, callerVars, childVars, monVars, cbCount>>
    /\ UNCHANGED <<childClosed, toChild>>

\* line 155, self._close(): line 149
Run_Clear(r) ==
    /\ epc[r] = "close_clear"
    /\ parent_pipe' = 0
    /\ epc' = [epc EXCEPT ![r] = "callback"]
    /\ UNCHANGED <<evVars, instance_index, stop_was_called, process, runs>>
    /\ UNCHANGED <<callerVars, pipeVars, childVars, monVars, cbCount>>

\* line 156: exit_callback(self)
Run_Callback(r) ==
    /\ epc[r] = "callback"
    /\ cbCount' = [cbCount EXCEPT ![r] = @ + 1]
    /\ epc' = [epc EXCEPT ![r] = "done"]
    /\ UNCHANGED <<evVars, supVars, callerVars, pipeVars, childVars, monVars>>

RunThread(r) ==
    \/ Run_Start(r)
    \/ Run_Join(r)
    \/ Run_CloseCheck(r)
    \/ Run_Close(r)
    \/ Run_Clear(r)
    \/ Run_Callback(r)

\* ------------------------------------------------------------------ the child process
\* The end of the child process, however it comes: its daemon listener thread
\* ends with it wherever it is, and the operating system closes the child's
\* end of the pipe (what the child had not received is lost with it).
ProcessExit ==
    /\ pstate' = "exited"
    /\ lpc' = IF lpc \in {"none", "done"} THEN lpc ELSE "dead"
    /\ childClosed' = TRUE
    /\ toChild' = <<>>

\* lines 32-57, up to the call of service.start(): create_service(), then
\* the environment variable, then the daemon listener thread
Child_Create ==
    /\ pstate = "create"
    /\ envAtCreate' = env
    /\ env' = <<instance_index>>
    /\ lpc' = "recv"
    /\ pstate' = "run"
    /\ UNCHANGED <<evVars, supVars, callerVars, pipeVars, monVars, exitVars>>
    /\ UNCHANGED <<sig, workerStops>>

\* line 32 raises; lines 58-61: logging.shutdown(), raise: the process ends
Child_CreateFails ==
    /\ pstate = "create"
    /\ ProcessExit
    /\ UNCHANGED <<evVars, supVars, callerVars, monVars, exitVars>>
    /\ UNCHANGED <<parentClosed, toParent>>
    /\ UNCHANGED <<sig, env, envAtCreate, workerStops>>

\* line 57: service.start() returns, on its own or after
\* inner_service.stop(): the main line ends and the process with it
Worker_Returns ==
    /\ pstate = "run"
    /\ ProcessExit
    /\ UNCHANGED <<evVars, supVars, callerVars, monVars, exitVars>>
    /\ UNCHANGED <<parentClosed, toParent>>
    /\ UNCHANGED <<sig, env, envAtCreate, workerStops>>

\* line 57: service.start() raises; lines 58-61: logging.shutdown(), raise.
\* The main line ends with the exception and the interpreter exits without
\* waiting for the daemon listener thread, whose finally clause is not run.
Worker_Raises ==
    /\ pstate = "run"
    /\ ProcessExit
    /\ UNCHANGED <<evVars, supVars, callerVars, monVars, exitVars>>
    /\ UNCHANGED <<parentClosed, toParent>>
    /\ UNCHANGED <<sig, env, envAtCreate, workerStops>>

\* a delivered terminate/kill signal ends the process
Process_Dies ==
    /\ os_alive
    /\ sig > 0
    /\ ProcessExit
    /\ UNCHANGED <<evVars, supVars, callerVars, monVars, exitVars>>
    /\ UNCHANGED <<parentClosed, toParent>>
    /\ UNCHANGED <<sig, env, envAtCreate, workerStops>>

\* ------------------------------------------------------------------ _listen_to_pipe
\* a listener whose cleanup closes the pipe without stopping the worker
ListenerLeaves_NoStop == "close"

\* line 43 (break) and line 47 (except) both fall to the finally of line 50.
\* (The parent end is closed only by _close, after join(): recv() never
\* meets a closed parent end while the child lives.)
ListenerLeaves == "stop"

\* lines 38-40: a TEST_ALIVE message is answered with inner_service.is_alive;
\* the send raises when the parent end is closed (line 47)
Listen_Probe ==
    /\ lpc = "recv"
    /\ toChild # <<>>
    /\ Head(toChild) = TEST_ALIVE_MESSAGE
    /\ toChild' = Tail(toChild)
    /\ IF parentClosed
         THEN /\ lpc' = ListenerLeaves
              /\ UNCHANGED toParent
         ELSE /\ \E b \in BOOLEAN : toParent' = Append(toParent, b)
              /\ UNCHANGED lpc
    /\ UNCHANGED <<evVars, supVars, callerVars, monVars, exitVars>>
    /\ UNCHANGED <<parentClosed, childClosed>>
    /\ UNCHANGED <<pstate, sig, env, envAtCreate, workerStops>>

\* lines 38-40 raise (inner_service.is_alive fails); line 47
Listen_ProbeFails ==
    /\ lpc = "recv"
    /\ toChild # <<>>
    /\ Head(toChild) = TEST_ALIVE_MESSAGE
    /\ toChild' = Tail(toChild)
    /\ lpc' = ListenerLeaves
    /\ UNCHANGED <<evVars, supVars, callerVars, monVars, exitVars>>
    /\ UNCHANGED <<parentClosed, childClosed, toParent>>
    /\ UNCHANGED <<pstate, sig, env, envAtCreate, workerStops>>

\* lines 38, 41-43: a STOP message ends the loop
Listen_Stop ==
    /\ lpc = "recv"
    /\ toChild # <<>>
    /\ Head(toChild) = STOP_MESSAGE
    /\ toChild' = Tail(toChild)
    /\ lpc' = ListenerLeaves
    /\ UNCHANGED <<evVars, supVars, callerVars, monVars, exitVars>>
    /\ UNCHANGED <<parentClosed, childClosed, toParent>>
    /\ UNCHANGED <<pstate, sig, env, envAtCreate, workerStops>>

\* line 51: inner_service.stop()
Listen_StopService ==
    /\ lpc = "stop"
    /\ workerStops' = workerStops + 1
    /\ lpc' = "close"
    /\ UNCHANGED <<evVars, supVars, callerVars, pipeVars, monVars, exitVars>>
    /\ UNCHANGED <<pstate, sig, env, envAtCreate>>

\* line 52: pipe.close()
Listen_Close ==
    /\ lpc = "close"
    /\ childClosed' = TRUE
    /\ toChild' = <<>>
    /\ lpc' = "done"
    /\ UNCHANGED <<evVars, supVars, callerVars, monVars, exitVars>>
    /\ UNCHANGED <<parentClosed, toParent>>
    /\ UNCHANGED <<pstate, sig, env, envAtCreate, workerStops>>

Child ==
    \/ Child_Create
    \/ Child_CreateFails
    \/ Worker_Returns
    \/ Worker_Raises
    \/ Process_Dies

Listener ==
    \/ Listen_Probe
    \/ Listen_ProbeFails
    \/ Listen_Stop
    \/ Listen_StopService
    \/ Listen_Close

\* ------------------------------------------------------------------ the system
Next ==
    \/ Caller
    \/ \E r \in Runs : Monitor(r)
    \/ \E r \in Runs : RunThread(r)
    \/ Child
    \/ Listener

Spec == Init /\ [][Next]_vars

\* The caller of the first claim: start() and stop() only.
NextStartStop ==
    \/ Start_Pipe
    \/ Start_Clear
    \/ Start_Spawn
    \/ Stop_Set
    \/ Stop_Check
    \/ Stop_Send
    \/ \E r \in Runs : Monitor(r)
    \/ \E r \in Runs : RunThread(r)
    \/ Child
    \/ Listener

\* Scheduling: a thread that can take a step takes it in the end (the caller
\* once it is inside a call, the liveness and run threads, the child's main
\* line up to service.start(), its listener), a signalled process ends, and
\* a worker whose stop() was called returns from start() (the Worker
\* contract).  Nothing makes the caller call, or a worker return unasked.
Fairness ==
    /\ WF_vars(Start_Clear \/ Start_Spawn \/ Stop_Check \/ Stop_Send)
    /\ \A r \in Runs : WF_vars(Monitor(r))
    /\ \A r \in Runs : WF_vars(RunThread(r))
    /\ WF_vars(Child_Create \/ Child_CreateFails)
    /\ WF_vars(Process_Dies)
    /\ WF_vars(Listener)
    /\ WF_vars(Worker_Returns /\ workerStops > 0)

StartStopSpec == Init /\ [][NextStartStop]_vars /\ Fairness

\* A worker that answers every probe with True (line 40 with
\* inner_service.is_alive True, never raising) ...
Listen_ProbeTrue ==
    /\ Listen_Probe
    /\ ~parentClosed => toParent' = Append(toParent, TRUE)

\* ... and in time: poll() (line 92) is never left to run out of its timeout
Mon_PollAnswered(r) ==
    /\ Mon_Poll(r)
    /\ PollOutcome # "timeout"

\* The supervisor with such a worker and a caller that only calls start().
NextHealthy ==
    \/ Start_Pipe
    \/ Start_Clear
    \/ Start_Spawn
    \/ \E r \in Runs : Mon_Wait(r)
    \/ \E r \in Runs : Mon_CheckNone(r)
    \/ \E r \in Runs : Mon_CheckClosed(r)
    \/ \E r \in Runs : Mon_Send(r)
    \/ \E r \in Runs : Mon_PollAnswered(r)
    \/ \E r \in Runs : Mon_Recv(r)
    \/ \E r \in Runs : Mon_StopSet(r)
    \/ \E r \in Runs : Mon_StopCheck(r)
    \/ \E r \in Runs : Mon_StopSend(r)
    \/ \E r \in Runs : Mon_KillCheck(r)
    \/ \E r \in Runs : Mon_Kill(r)
    \/ \E r \in Runs : RunThread(r)
    \/ Child
    \/ Listen_ProbeTrue
    \/ Listen_Stop
    \/ Listen_StopService
    \/ Listen_Close

HealthySpec == Init /\ [][NextHealthy]_vars


\* ------------------------------------------------------------------ baseservice.utils.Event
\* list.remove(h): the list without its first entry equal to h
RECURSIVE Remove(_, _)
Remove(list, h) ==
    IF list = <<>> THEN <<>>
    ELSE IF Head(list) = h THEN Tail(list)
    ELSE <<Head(list)>> \o Remove(Tail(list), h)

\* h in list
Contains(list, h) == \E i \in 1..Len(list) : list[i] = h

\* number of entries of list equal to h
Count(list, h) == Cardinality({i \in 1..Len(list) : list[i] = h})

\* lines 38-39: register_handler appends, whether or not h is in the list
Registered(list, h) == Append(list, h)

\* lines 41-45: unregister_handler removes the first entry equal to h
Unregistered(list, h) == IF Contains(list, h) THEN Remove(list, h) ELSE list

\* register_handler called between two fire() calls
register_handler(h) ==
    /\ firePc # "loop"
    /\ Len(handlers) < MaxHandlers
    /\ handlers' = Registered(handlers, h)
    /\ UNCHANGED <<firePc, it, ret_val, continue_after_failure, result,
                   atBegin, invoked, outcomes, shrunk, grew>>
    /\ UNCHANGED svcVars

\* unregister_handler called between two fire() calls
unregister_handler(h) ==
    /\ firePc # "loop"
    /\ Contains(handlers, h)
    /\ handlers' = Unregistered(handlers, h)
    /\ UNCHANGED <<firePc, it, ret_val, continue_after_failure, result,
                   atBegin, invoked, outcomes, shrunk, grew>>
    /\ UNCHANGED svcVars

\* lines 47-49: fire() is called; ret_val = True; the for statement takes
\* an iterator over self._handlers itself (no copy of the list is made)
fire_begin(c) ==
    /\ firePc # "loop"
    /\ firePc' = "loop"
    /\ continue_after_failure' = c
    /\ ret_val' = TRUE
    /\ it' = 0
    /\ result' = <<>>
    /\ atBegin' = handlers
    /\ invoked' = <<>>
    /\ outcomes' = <<>>
    /\ shrunk' = FALSE
    /\ grew' = FALSE
    /\ UNCHANGED handlers
    /\ UNCHANGED svcVars

\* what the body of a handler does to the Event it is called from:
\* nothing, unregister_handler(u) or register_handler(u)
HandlerEffects == {<<"none", 0>>} \cup ({"unregister", "register"} \X HandlerIds)

AfterEffect(list, eff) ==
    IF eff[1] = "unregister" THEN Unregistered(list, eff[2])
    ELSE IF eff[1] = "register" /\ Len(list) < MaxHandlers THEN Registered(list, eff[2])
    ELSE list

\* a fire() that raises at the first failure whatever its argument
Propagates_Always == TRUE

\* lines 54-55: if not continue_after_failure: raise
Propagates == ~continue_after_failure

\* lines 49-55, one iteration: the iterator yields the entry at its index,
\* the handler is called, and returns or raises
fire_handler ==
    /\ firePc = "loop"
    /\ it < Len(handlers)
    /\ \E eff \in HandlerEffects, raises \in BOOLEAN :
          /\ handlers' = AfterEffect(handlers, eff)
          /\ shrunk' = (shrunk \/ Len(handlers') < Len(handlers))
          /\ grew' = (grew \/ Len(handlers') > Len(handlers))
          /\ invoked' = Append(invoked, handlers[it + 1])
          /\ outcomes' = Append(outcomes, raises)
          /\ ret_val' = IF raises THEN FALSE ELSE ret_val
          /\ firePc' = IF raises /\ Propagates THEN "raised" ELSE "loop"
    /\ it' = it + 1
    /\ UNCHANGED <<continue_after_failure, result, atBegin>>
    /\ UNCHANGED svcVars

\* line 56: the iterator is exhausted; return ret_val
fire_return ==
    /\ firePc = "loop"
    /\ it >= Len(handlers)
    /\ firePc' = "returned"
    /\ result' = <<ret_val>>
    /\ UNCHANGED <<handlers, it, ret_val, continue_after_failure,
                   atBegin, invoked, outcomes, shrunk, grew>>
    /\ UNCHANGED svcVars

NextEvent ==
    \/ \E h \in HandlerIds : register_handler(h)
    \/ \E h \in HandlerIds : unregister_handler(h)
    \/ \E c \in BOOLEAN : fire_begin(c)
    \/ fire_handler
    \/ fire_return

EventSpec == Init /\ [][NextEvent]_vars

\* ------------------------------------------------------------------ properties

\* the positions at which a thread is running its loop
MonActive == {"wait", "chk_none", "chk_closed", "send", "poll", "recv",
              "esc_set", "esc_chk", "esc_send", "esc_alive", "esc_kill"}
RunActive == {"start", "join", "close_chk", "close_do", "close_clear", "callback"}

\* a stop() (the caller's, or the liveness thread's own) has set the signal
\* during run r
StopRequestedIn(r) == stop_was_called /\ runs = r /\ epc[r] \in RunActive

\* C1: in every run begun by start() and followed by stop() calls, the exit
\* callback is invoked exactly once: never twice, never while the child
\* process has not exited, once by the time the run thread has ended, and a
\* run in which stop was requested does reach its callback.
C1_ExitCallbackOnce ==
    /\ [](\A r \in Runs : cbCount[r] <= 1 /\ (epc[r] = "done" => cbCount[r] = 1))
    /\ [][\A r \in Runs : cbCount'[r] # cbCount[r] => (process = r /\ pstate = "exited")]_vars
    /\ \A r \in Runs : StopRequestedIn(r) ~> (cbCount[r] = 1)

\* a run in which the caller called stop() twice, the listener honoured STOP,
\* and the callback has fired
C1_Witness ==
    /\ runs = 1
    /\ calls = 2
    /\ stop_was_called
    /\ workerStops = 1
    /\ cbCount[1] = 1

\* C2 (as claimed): once the liveness thread of the current run has gone
\* through its escalation (stop, then kill), the child process of that run
\* is not left running with no kill signal delivered to it.
C2_EscalationKills ==
    \A r \in Runs :
        (mpc[r] = "escalated" /\ r = runs /\ process = r) => ~(os_alive /\ sig = 0)

\* C3 (as claimed): no stop() of the caller ends in an exception: whenever
\* the caller's stop() reaches its send, the send succeeds.
C3_StopNeverRaises == [][Stop_Send => SendOutcome = "ok"]_vars

\* C4 (as claimed): at most one liveness loop and at most one run (exit-wait)
\* loop are active at any time.
C4_OneLoopEach ==
    /\ Cardinality({r \in Runs : mpc[r] \in MonActive}) <= 1
    /\ Cardinality({r \in Runs : epc[r] \in RunActive}) <= 1

\* C5 (as claimed): no liveness thread sends a probe while the
\* intentional-stop signal is set.
C5_NoProbeAfterStop == \A r \in Runs : lateProbes[r] = 0

\* C5 (amended): while the intentional-stop signal is set, each liveness
\* thread sends at most one probe, that of the iteration it had already begun.
C5_AtMostOneLateProbe == \A r \in Runs : lateProbes[r] <= 1

\* a liveness thread sent a probe after stop() had set the signal
C5_Witness == \E r \in Runs : lateProbes[r] = 1 /\ stop_was_called /\ calls > 0

\* C6 (as claimed): when create_service() is invoked the environment
\* variable already holds the instance index.
C6_EnvSetBeforeCreate == lpc # "none" => envAtCreate = <<instance_index>>

C8_IsAliveFalseWhenIdle ==
    /\ []((callerPc = "idle" /\ IdleOrExited) => ~is_alive)
    /\ [][Call_is_alive =>
            /\ ret' = <<is_alive>>
            /\ UNCHANGED <<supVars, pipeVars, childVars, monVars, exitVars>>]_vars

\* is_alive() was called before the first start() and returned false
C8_Witness == runs = 0 /\ ret = <<FALSE>>

\* C9: terminate() and kill() called while no process is alive return at
\* once: no signal is sent, and the pipe, the process handle and the
\* intentional-stop signal are left as they were.
C9_SignalNoopWhenNotAlive ==
    [][((Terminate_Check \/ Kill_Check) /\ ~is_alive) =>
            /\ callerPc' = "idle"
            /\ UNCHANGED <<supVars, pipeVars, childVars>>]_vars

\* terminate()/kill() were called before any start(): nothing else can have
\* raised the call count while the signal is clear
C9_Witness == runs = 0 /\ calls > 0 /\ ~stop_was_called /\ callerPc = "idle"

\* C10: when the exit callback is invoked the child process has exited and
\* the parent end of the pipe has been closed and cleared.
C10_CallbackAfterClose ==
    [][\A r \in Runs : cbCount'[r] # cbCount[r] =>
            (pstate = "exited" /\ parentClosed /\ parent_pipe = 0)]_vars

\* the callback of a run has fired with the pipe closed and cleared
C10_Witness ==
    /\ cbCount[1] = 1
    /\ runs = 1
    /\ pstate = "exited"
    /\ parentClosed
    /\ parent_pipe = 0

\* C11 (as claimed): from the exit callback of the latest run on, and until
\* a new start(), the process and pid accessors report absent (None).
C11_HandleClearedAtCallback ==
    \A r \in Runs :
        (runs = r /\ epc[r] = "done") => (process = 0 /\ pid = 0)

\* C12 (as claimed): with the child's end of the pipe closed and the child
\* process of its run still running, no step of the liveness thread ends
\* the thread with an exception (it goes on to its escalation instead).
C12_ClosedChannelNoError ==
    [][\A r \in Runs :
          (process = r /\ runs = r /\ os_alive /\ childClosed /\ mpc[r] \in MonActive)
              => mpc'[r] # "error"]_vars

\* C13 (as claimed): when service.start() raises in the child's main line,
\* with the listener thread started, the process does not end before the
\* listener's cleanup has called inner_service.stop() and closed the
\* child's end of the pipe.
C13_CleanupOnWorkerFailure ==
    [][Worker_Raises => (lpc = "done" /\ workerStops = 1)]_vars

\* a thread whose control is at a send on self._parent_pipe: no lock is
\* taken anywhere in the class, so from there its write can begin at any
\* moment, and two threads at a send are two writes free to overlap
CallerAtSend == callerPc = "stop_send"
MonitorAtSend(r) == mpc[r] \in {"send", "esc_send"}

\* C14 (as claimed): the caller's stop() and a liveness thread are never
\* both at a send on the parent end of the pipe.
C14_SendsSerialized == ~(CallerAtSend /\ \E r \in Runs : MonitorAtSend(r))

\* C15 (as claimed): the kill() of a liveness thread's escalation never
\* delivers a signal to a process that a terminate()/kill() has already
\* signalled: no process is sent two forced terminations.
C15_NoDoubleTermination ==
    [][\A r \in Runs :
          (mpc[r] = "esc_kill" /\ mpc'[r] # "esc_kill" /\ sig' > sig) => sig = 0]_vars

\* C16: while the child process of a run is alive, the run thread of that
\* run is waiting in join() on it, or its liveness thread is in its loop.
C16_AliveIsWatched ==
    \A r \in Runs :
        (process = r /\ os_alive) => (epc[r] = "join" \/ mpc[r] \in MonActive)

\* the child process is alive after its liveness thread has ended with its
\* escalation, and the run thread is in join()
C16_Witness ==
    /\ process = 1
    /\ os_alive
    /\ mpc[1] = "escalated"
    /\ epc[1] = "join"

\* C17 (as claimed): with a worker that answers every probe with True in
\* time and a caller that only calls start(), no kill signal is ever
\* delivered to a child process.
C17_HealthyNeverKilled == sig = 0

\* steps that call send, poll or recv on self._parent_pipe, and the step
\* that reads its closed attribute
UsesEndpoint ==
    \/ Stop_Send
    \/ \E r \in Runs : Mon_Send(r) \/ Mon_Poll(r) \/ Mon_Recv(r) \/ Mon_StopSend(r)
ReadsClosed == \E r \in Runs : Mon_CheckClosed(r)

\* C18 (as claimed): stop() and the liveness thread never call send, poll
\* or recv on a parent end that _close() has closed or cleared, and never
\* read the closed attribute of a cleared one.
C18_NoUseAfterClose ==
    [][/\ UsesEndpoint => (parent_pipe # 0 /\ ~parentClosed)
       /\ ReadsClosed => parent_pipe # 0]_vars

\* C19 (as claimed): once the child process of the latest run has exited,
\* no step of that run's liveness thread ends the thread with an exception.
C19_MonitorEndsCleanly ==
    [][\A r \in Runs :
          (process = r /\ runs = r /\ pstate = "exited" /\ mpc[r] \in MonActive)
              => mpc'[r] # "error"]_vars

\* some invocation of this fire() raised
AnyRaised == \E i \in 1..Len(outcomes) : outcomes[i]

====
